---- MODULE Spec2Model ----
(***************************************************************************)
(* Model of streamlit_app.py: the HCAHPS benchmark aggregation (the loop   *)
(* over `measures`), the styled comparison table, and the PowerPoint       *)
(* export (create_pptx and the 'Download PowerPoint Report' handler).      *)
(*                                                                         *)
(* Numbers.  A pandas/Python float is modelled by the exact rational it    *)
(* stands for, <<n, d>> with d > 0 in lowest terms; a null (NaN / None) is *)
(* the empty tuple.  Lengths on the slide are EMU integers, as python-pptx *)
(* keeps them (Inches(x) == int(x * 914400)).                              *)
(***************************************************************************)
EXTENDS Integers, Sequences, FiniteSets, TLC

(***************************************************************************)
(* Bounds of the model                                                     *)
(***************************************************************************)
MaxRecs == 3            \* rows of HCAHPS.csv
MaxRows == 20           \* rows of a comp_df handed to create_pptx directly

Percents == {60, 80}
SelectableLabels == {"Nurse Communication", "Doctor Communication"}

(***************************************************************************)
(* Floats and nulls                                                        *)
(***************************************************************************)
NaN == <<>>

notnull(v) == v # NaN

Abs(n) == IF n < 0 THEN -n ELSE n

Max(a, b) == IF a >= b THEN a ELSE b

Min(a, b) == IF a <= b THEN a ELSE b

RECURSIVE GCD(_, _)
GCD(a, b) == IF b = 0 THEN a ELSE GCD(b, a % b)

Norm(n, d) == LET g == GCD(Abs(n), d) IN <<n \div g, d \div g>>

Range(s) == {s[i] : i \in DOMAIN s}

(***************************************************************************)
(* Input data: df_info and df_hcahps                                       *)
(***************************************************************************)
df_info == << [name |-> "Alpha", id |-> "A", state |-> "X"],
              [name |-> "Gamma", id |-> "C", state |-> "Z"] >>

Scored == {<<p, 1>> : p \in Percents}

\* Rows of HCAHPS.csv: three hospitals, two of them in one state, report
\* the first measure; hospital A also reports the second, and some of its
\* answers are missing.  The directory lists hospital C under a state code
\* that no survey row carries.
RecordSpace ==
    [facility : {"A"}, state : {"X"}, measure_id : {"H_COMP_1_A_P"},
     answer_percent : {NaN} \cup Scored]
    \cup [facility : {"A"}, state : {"X"}, measure_id : {"H_COMP_2_A_P"},
          answer_percent : {NaN, <<80, 1>>}]
    \cup [facility : {"B"}, state : {"X"}, measure_id : {"H_COMP_1_A_P"},
          answer_percent : Scored]
    \cup [facility : {"C"}, state : {"Y"}, measure_id : {"H_COMP_1_A_P"},
          answer_percent : Scored]

FacKey(f) == CASE f = "A" -> 0 [] f = "B" -> 1 [] f = "C" -> 2

MeasureKey(m) == IF m = "H_COMP_1_A_P" THEN 0 ELSE 1

PercentKey(p) == IF p = NaN THEN 0 ELSE p[1]

RecKey(r) == (FacKey(r.facility) * 2 + MeasureKey(r.measure_id)) * 101
                + PercentKey(r.answer_percent)

\* The frames load_hcahps_data can return: every filter and mean of the
\* script is independent of row order, so one ordering per multiset of rows.
DataSets == {s \in UNION {[1..n -> RecordSpace] : n \in 0..MaxRecs} :
                \A i \in 1..(Len(s) - 1) : RecKey(s[i]) <= RecKey(s[i + 1])}

(***************************************************************************)
(* The metric catalog and the selection                                    *)
(***************************************************************************)
all_measures == << <<"Nurse Communication", "H_COMP_1_A_P">>,
                   <<"Doctor Communication", "H_COMP_2_A_P">>,
                   <<"Staff Responsiveness", "H_COMP_3_A_P">>,
                   <<"Care Transition", "H_COMP_5_A_P">>,
                   <<"Discharge Info", "H_COMP_6_Y_P">>,
                   <<"Care Cleanliness", "H_CLEAN_HSP_A_P">>,
                   <<"Quietness", "H_QUIET_HSP_A_P">>,
                   <<"Recommend", "H_RECMND_DY">> >>

metric_options == [i \in 1..Len(all_measures) |-> all_measures[i][1]]

\* What st.multiselect can return: the chosen options, each once, in the
\* order the user chose them.
Selections ==
    {s \in UNION {[1..n -> SelectableLabels] : n \in 0..Cardinality(SelectableLabels)} :
        \A i, j \in DOMAIN s : i # j => s[i] # s[j]}
    \cup {metric_options}

MeasuresInSelectionOrder(selected) ==
    [i \in 1..Len(selected) |->
        all_measures[CHOOSE k \in 1..Len(all_measures) : all_measures[k][1] = selected[i]]]

IsSelected(m, selected) == m[1] \in Range(selected)

Measures(selected) == SelectSeq(all_measures, LAMBDA m : IsSelected(m, selected))

(***************************************************************************)
(* Aggregation                                                             *)
(***************************************************************************)
RECURSIVE SumPercent(_)
SumPercent(s) == IF s = <<>> THEN 0 ELSE Head(s)[1] + SumPercent(Tail(s))

MeanNullAsZero(series) ==
    IF series = <<>> THEN NaN
    ELSE Norm(SumPercent(SelectSeq(series, notnull)), Len(series))

\* Series.mean(): skipna, NaN for an empty series.
Mean(series) ==
    LET present == SelectSeq(series, notnull)
    IN  IF present = <<>> THEN NaN ELSE Norm(SumPercent(present), Len(present))

AnswerPercent(rows) == [i \in 1..Len(rows) |-> rows[i].answer_percent]

Sub(a, b) == Norm(a[1] * b[2] - b[1] * a[2], a[2] * b[2])

DiffMissingAsZero(score, avg) ==
    IF notnull(avg) THEN Sub(IF notnull(score) THEN score ELSE <<0, 1>>, avg) ELSE NaN

Diff(score, avg) == IF notnull(score) /\ notnull(avg) THEN Sub(score, avg) ELSE NaN

\* the dict of lines 109-116
RowDict(label, hosp_score, state_avg, nat_avg) ==
    [Measure      |-> label,
     Hospital     |-> hosp_score,
     State_Avg    |-> state_avg,
     National_Avg |-> nat_avg,
     vs_State     |-> Diff(hosp_score, state_avg),
     vs_National  |-> Diff(hosp_score, nat_avg)]

\* one pass of the loop, lines 97-116
ComparisonRow(df, hospital_id, hospital_state, label, measure_id) ==
    RowDict(label,
            Mean(AnswerPercent(SelectSeq(df,
                LAMBDA r : r.facility = hospital_id /\ r.measure_id = measure_id))),
            Mean(AnswerPercent(SelectSeq(df,
                LAMBDA r : r.state = hospital_state /\ r.measure_id = measure_id))),
            Mean(AnswerPercent(SelectSeq(df,
                LAMBDA r : r.measure_id = measure_id))))

Comparison(df, hospital_id, hospital_state, measures) ==
    [i \in 1..Len(measures) |->
        ComparisonRow(df, hospital_id, hospital_state, measures[i][1], measures[i][2])]

(***************************************************************************)
(* The comparison frame and the styled table (lines 118-125)               *)
(***************************************************************************)
ColumnNames == <<"Measure", "Hospital", "State Avg", "National Avg", "vs State", "vs National">>

\* pd.DataFrame(comparison).columns: the keys of the row dicts; none at all
\* for an empty list of rows.
FrameColumns(comp) == IF comp = <<>> THEN <<>> ELSE ColumnNames

CellValue(row, j) ==
    CASE j = 1 -> row.Measure
      [] j = 2 -> row.Hospital
      [] j = 3 -> row.State_Avg
      [] j = 4 -> row.National_Avg
      [] j = 5 -> row.vs_State
      [] j = 6 -> row.vs_National

GreenStyle == "background-color: #d4edda"

RedStyle == "background-color: #f8d7da"

\* The lambda of line 123; a NaN is a float for which both tests are false,
\* a None fails isinstance.
StyleOf(v) ==
    IF notnull(v) /\ v[1] > 0 THEN GreenStyle
    ELSE IF notnull(v) /\ v[1] < 0 THEN RedStyle
    ELSE ""

StyleFrame(comp) ==
    [i \in 1..Len(comp) |-> [vs_State    |-> StyleOf(comp[i].vs_State),
                             vs_National |-> StyleOf(comp[i].vs_National)]]

(***************************************************************************)
(* Text of a cell                                                          *)
(***************************************************************************)
RECURSIVE Digits(_)
Digits(n) == IF n < 10 THEN 1 ELSE 1 + Digits(n \div 10)

SignLen(v) == IF v[1] < 0 THEN 1 ELSE 0

\* len(str(x)) for a float x.  An integral or half-integral value prints
\* exactly ('70.0').  Any other value of this input domain has no finite
\* binary expansion and prints in shortest round-trip form: a mean with 16
\* significant digits ('73.33333333333333'), a difference, which carries the
\* rounding of its two operands, with 16 decimals below 4 in magnitude
\* ('3.3333333333333286') and 15 from there on ('13.333333333333329').
FloatStrLen(v, isDiff) ==
    LET whole == Digits(Abs(v[1]) \div v[2])
    IN  IF v[2] \in {1, 2} THEN SignLen(v) + whole + 2
        ELSE IF ~isDiff THEN SignLen(v) + whole + 1 + (16 - whole)
        ELSE SignLen(v) + whole + 1 + (IF Abs(v[1]) < 4 * v[2] THEN 16 ELSE 15)

\* A difference column whose every entry is None stays an object column of
\* None; otherwise pandas stores the missing entries as NaN.
AllNone(comp, j) == \A i \in 1..Len(comp) : CellValue(comp[i], j) = NaN

\* len(str(comp_df.iloc[i, j])), line 277
RawStrLen(comp, i, j) ==
    LET val == CellValue(comp[i], j)
    IN  IF j = 1 THEN Len(val)
        ELSE IF val = NaN THEN (IF j >= 5 /\ AllNone(comp, j) THEN 4 ELSE 3)
        ELSE FloatStrLen(val, j >= 5)

\* len(f"{val:.1f}"): the value rounded to tenths
OneDecimalLen(v) ==
    LET tenths == (Abs(v[1]) * 20 + v[2]) \div (2 * v[2])
    IN  SignLen(v) + Digits(tenths \div 10) + 2

\* length of the text lines 258-268 write into table.cell(i+1, j)
CellTextLen(comp, i, j) ==
    LET val == CellValue(comp[i], j)
    IN  IF j = 1 THEN Len(val)
        ELSE IF val = NaN THEN 0
        ELSE OneDecimalLen(val)

RECURSIVE MaxOver(_, _)
MaxOver(f, n) == IF n = 0 THEN 0 ELSE Max(f[n], MaxOver(f, n - 1))

(***************************************************************************)
(* create_pptx: geometry in EMU                                            *)
(***************************************************************************)
EmuPerInch == 914400

DefaultSlideWidth == 9144000

DefaultSlideHeight == 6858000

\* Inches(m / 1000) for the literals of create_pptx, whose float product
\* with 914400 is integral
Inches(milli) == (milli * (EmuPerInch \div 100)) \div 10

\* row counts for which the double (0.4 + rows * 0.18) * 914400 falls just
\* below the integer 365760 + 164592 * rows, so that int() loses one EMU
ShortRows == {5, 8, 10, 15, 18, 20, 21, 43, 47}

TallRowsTableHeight(rows) == Inches(400) + 2 * 164592 * rows

\* Inches(0.4 + rows * row_height), row_height = 0.18
TableHeight(rows) ==
    Inches(400) + 164592 * rows - (IF rows \in ShortRows THEN 1 ELSE 0)

\* Inches(min(max(0.12 * max_len, 1.0), 2.2)); 0.12 * 11 and 0.12 * 15 are
\* the two products in range that fall just below their decimal value
ColWidth(max_len) ==
    Inches(Min(Max(120 * max_len, 1000), 2200))
        - (IF max_len \in {11, 15} THEN 1 ELSE 0)

\* line 277
MaxLen(comp, j) ==
    Max(Len(ColumnNames[j]), MaxOver([i \in 1..Len(comp) |-> RawStrLen(comp, i, j)], Len(comp)))

ColumnWidths(comp, cols) == [j \in 1..cols |-> ColWidth(MaxLen(comp, j))]

UnclampedChartHeight(slide_h, chart_top) == slide_h - chart_top - Inches(300)

\* lines 284-288
ChartHeight(slide_h, chart_top) ==
    LET chart_height == slide_h - chart_top - Inches(300)
    IN  IF chart_height < Inches(2000) THEN Inches(2000) ELSE chart_height

CreatePptx(comp, cols, slide_w, slide_h) ==
    LET rows         == Len(comp)
        table_top    == Inches(1600)
        table_height == TableHeight(rows)
        chart_top    == table_top + table_height + Inches(200)
    IN  [built |-> TRUE,
         rows  |-> rows,
         title |-> [left |-> Inches(500), top |-> Inches(300),
                    width |-> slide_w - Inches(1000), height |-> Inches(1000)],
         date  |-> [left |-> Inches(500), top |-> Inches(1100),
                    width |-> slide_w - Inches(1000), height |-> Inches(400)],
         table |-> [left |-> Inches(500), top |-> table_top,
                    width |-> slide_w - Inches(1000), height |-> table_height],
         chart |-> [left |-> Inches(500), top |-> chart_top,
                    width |-> slide_w - Inches(1000),
                    height |-> ChartHeight(slide_h, chart_top)],
         cell_text_len |-> [i \in 1..rows |-> [j \in 1..cols |-> CellTextLen(comp, i, j)]],
         cell_fill     |-> [i \in 1..rows |-> [j \in 1..cols |-> ""]],
         column_widths |-> ColumnWidths(comp, cols)]

NoReport == [built |-> FALSE]

(***************************************************************************)
(* One run of the script down to the button (lines 91-125)                 *)
(***************************************************************************)
\* comp_df[[...]] of line 122 raises KeyError when the frame lacks the six
\* columns, which ends the run before the button is drawn.
ScriptRun(df, hosp_id, hosp_state, selected) ==
    LET comp == Comparison(df, hosp_id, hosp_state, Measures(selected))
        cols == FrameColumns(comp)
        shown == Range(ColumnNames) \subseteq Range(cols)
    IN  [comparison    |-> comp,
         columns       |-> cols,
         display_style |-> IF shown THEN StyleFrame(comp) ELSE <<>>,
         pc            |-> IF shown THEN "idle" ELSE "script_error"]

(***************************************************************************)
(* State                                                                   *)
(***************************************************************************)
VARIABLES df_hcahps, hospital_id, hospital_state, selected_metrics,
          comparison, columns, display_style, slide_height, report,
          tmp_files, pc

vars == <<df_hcahps, hospital_id, hospital_state, selected_metrics,
          comparison, columns, display_style, slide_height, report,
          tmp_files, pc>>

\* tmp_files: the temporary files the latest export created that are still
\* on disk.

\* The page after its first run: the data are loaded, the selectbox shows
\* the first hospital and the multiselect its default, every metric.
Init ==
    /\ df_hcahps \in DataSets
    /\ hospital_id = df_info[1].id
    /\ hospital_state = df_info[1].state
    /\ selected_metrics = metric_options
    /\ \E run \in {ScriptRun(df_hcahps, hospital_id, hospital_state, selected_metrics)} :
           /\ comparison = run.comparison
           /\ columns = run.columns
           /\ display_style = run.display_style
           /\ pc = run.pc
    /\ slide_height = DefaultSlideHeight
    /\ report = NoReport
    /\ tmp_files = {}

Rerun(hosp_id, hosp_state, selected) ==
    \E run \in {ScriptRun(df_hcahps, hosp_id, hosp_state, selected)} :
        /\ comparison' = run.comparison
        /\ columns' = run.columns
        /\ display_style' = run.display_style
        /\ pc' = run.pc
        /\ report' = NoReport
        /\ UNCHANGED <<df_hcahps, slide_height, tmp_files>>

\* a change of the multiselect (line 88) reruns the script
SelectMetrics(sel) ==
    /\ sel # selected_metrics
    /\ selected_metrics' = sel
    /\ UNCHANGED <<hospital_id, hospital_state>>
    /\ Rerun(hospital_id, hospital_state, sel)

\* a change of the selectbox (lines 69-73) reruns the script
SelectHospital(k) ==
    /\ df_info[k].id # hospital_id
    /\ hospital_id' = df_info[k].id
    /\ hospital_state' = df_info[k].state
    /\ UNCHANGED selected_metrics
    /\ Rerun(df_info[k].id, df_info[k].state, selected_metrics)

Outcomes == {"ok", "write_image_failed", "create_pptx_failed", "save_failed",
             "download_failed"}

\* lines 368-376, the click on 'Download PowerPoint Report'.  The calls into
\* the chart renderer, the document writer and the download widget either
\* return or raise; nothing in the handler catches.
ExportReport(outcome) ==
    /\ pc \in {"idle", "exported", "export_failed"}
    /\ CASE outcome = "write_image_failed" ->       \* line 365 raises
              /\ tmp_files' = {"chart_img"}
              /\ report' = NoReport
              /\ pc' = "export_failed"
         [] outcome = "create_pptx_failed" ->       \* line 359 or 360 raises
              /\ tmp_files' = {"chart_img"}
              /\ report' = NoReport
              /\ pc' = "export_failed"
         [] outcome = "save_failed" ->              \* line 372 raises
              /\ tmp_files' = {"chart_img", "tmp_pptx"}
              /\ report' = CreatePptx(comparison, Len(columns), DefaultSlideWidth, slide_height)
              /\ pc' = "export_failed"
         [] outcome = "download_failed" ->          \* line 373 or 374 raises
              /\ tmp_files' = {"chart_img", "tmp_pptx"}
              /\ report' = CreatePptx(comparison, Len(columns), DefaultSlideWidth, slide_height)
              /\ pc' = "export_failed"
         [] outcome = "ok" ->                       \* lines 375-376 reached
              /\ tmp_files' = {}
              /\ report' = CreatePptx(comparison, Len(columns), DefaultSlideWidth, slide_height)
              /\ pc' = "exported"
    /\ UNCHANGED <<df_hcahps, hospital_id, hospital_state, selected_metrics,
                   comparison, columns, display_style, slide_height>>

Next ==
    \/ \E sel \in Selections : SelectMetrics(sel)
    \/ \E k \in DOMAIN df_info : SelectHospital(k)
    \/ \E outcome \in Outcomes : ExportReport(outcome)

Spec == Init /\ [][Next]_vars

(***************************************************************************)
(* create_pptx on its own: a frame of R rows on a canvas of height H       *)
(***************************************************************************)
CanvasHeights == {0, 1828800, 3657600, 5143500, DefaultSlideHeight, 9144000}

\* a frame of R rows that carry no data
EmptyRows(R) ==
    [i \in 1..R |-> [Measure |-> metric_options[((i - 1) % Len(metric_options)) + 1],
                     Hospital |-> NaN, State_Avg |-> NaN, National_Avg |-> NaN,
                     vs_State |-> NaN, vs_National |-> NaN]]

InitLayout ==
    /\ df_hcahps = <<>>
    /\ hospital_id = df_info[1].id
    /\ hospital_state = df_info[1].state
    /\ selected_metrics = metric_options
    /\ \E R \in 0..MaxRows : comparison = EmptyRows(R)
    /\ columns = ColumnNames
    /\ display_style = StyleFrame(comparison)
    /\ slide_height \in CanvasHeights
    /\ report = NoReport
    /\ tmp_files = {}
    /\ pc = "idle"

NextLayout == \E outcome \in Outcomes : ExportReport(outcome)

SpecLayout == InitLayout /\ [][NextLayout]_vars

(***************************************************************************)
(* Properties                                                              *)
(***************************************************************************)
CatalogIndex(label) == CHOOSE k \in 1..Len(all_measures) : all_measures[k][1] = label

MeasureIdOf(label) == all_measures[CatalogIndex(label)][2]

InchEmu(milli) == (milli * 9144) \div 10

\* C1 as claimed: for a non-empty selection the table has one row per
\* selected metric, and the rows follow the order in which the metrics were
\* selected.
C1_RowsInSelectionOrder ==
    selected_metrics # <<>> =>
        /\ Len(comparison) = Len(selected_metrics)
        /\ \A i \in 1..Len(comparison) : comparison[i].Measure = selected_metrics[i]

\* C1 as amended: for a non-empty selection the table has one row per
\* selected metric, none dropped for want of records, and the rows follow the
\* order of the catalog all_measures, whatever the order of selection.
C1_RowsInCatalogOrder ==
    selected_metrics # <<>> =>
        /\ Len(comparison) = Len(selected_metrics)
        /\ \A k \in 1..Len(selected_metrics) :
              Cardinality({i \in 1..Len(comparison) :
                              comparison[i].Measure = selected_metrics[k]}) = 1
        /\ \A i, j \in 1..Len(comparison) :
              i < j => CatalogIndex(comparison[i].Measure) < CatalogIndex(comparison[j].Measure)

\* two metrics selected against the catalog order, one of them without a
\* record for the hospital
C1_Witness ==
    /\ pc = "idle"
    /\ selected_metrics = <<"Doctor Communication", "Nurse Communication">>
    /\ Len(comparison) = 2
    /\ comparison[1].Hospital # NaN
    /\ comparison[2].Hospital = NaN

\* h - a = d over the rationals, by cross-multiplication
IsDifference(d, h, a) == d[1] * h[2] * a[2] = (h[1] * a[2] - a[1] * h[2]) * d[2]

\* C2: in every row 'vs State' is defined iff 'Hospital' and 'State Avg'
\* both are, and is then Hospital - State Avg; likewise 'vs National' with
\* 'National Avg'.
C2_DiffIffBothOperands ==
    \A i \in 1..Len(comparison) :
        LET row == comparison[i]
        IN  /\ (row.vs_State # NaN) <=> (row.Hospital # NaN /\ row.State_Avg # NaN)
            /\ row.vs_State # NaN => IsDifference(row.vs_State, row.Hospital, row.State_Avg)
            /\ (row.vs_National # NaN) <=> (row.Hospital # NaN /\ row.National_Avg # NaN)
            /\ row.vs_National # NaN =>
                  IsDifference(row.vs_National, row.Hospital, row.National_Avg)

\* one row with a hospital score and a national average but no state
\* average, its difference to the nation non-zero, and one row with a
\* national average but no hospital score
C2_Witness ==
    /\ pc \in {"idle", "exported"}
    /\ \E i \in 1..Len(comparison) :
          /\ comparison[i].Hospital # NaN
          /\ comparison[i].State_Avg = NaN
          /\ comparison[i].vs_State = NaN
          /\ comparison[i].vs_National # NaN
          /\ comparison[i].vs_National[1] # 0
    /\ \E i \in 1..Len(comparison) :
          /\ comparison[i].Hospital = NaN
          /\ comparison[i].National_Avg # NaN
          /\ comparison[i].vs_National = NaN

RECURSIVE SumAt(_, _)
SumAt(df, idx) ==
    IF idx = {} THEN 0
    ELSE LET k == CHOOSE k \in idx : TRUE
         IN  df[k].answer_percent[1] + SumAt(df, idx \ {k})

\* score is the mean of answer_percent over the rows idx that carry one
IsMeanOver(score, df, idx) ==
    LET present == {k \in idx : df[k].answer_percent # NaN}
    IN  /\ (score = NaN) <=> (present = {})
        /\ score # NaN => score[1] * Cardinality(present) = score[2] * SumAt(df, present)

\* C3: for each row, Hospital / State Avg / National Avg are the means of
\* answer_percent over the records of the row's measure that match the
\* hospital's id / the hospital's state / nothing more, records with a null
\* answer_percent left out of sum and count; a score is null exactly when no
\* matching record carries a percent.
C3_ScoresAreMeans ==
    \A i \in 1..Len(comparison) :
        LET row == comparison[i]
            m   == MeasureIdOf(row.Measure)
            ofMeasure == {k \in DOMAIN df_hcahps : df_hcahps[k].measure_id = m}
        IN  /\ IsMeanOver(row.Hospital, df_hcahps,
                          {k \in ofMeasure : df_hcahps[k].facility = hospital_id})
            /\ IsMeanOver(row.State_Avg, df_hcahps,
                          {k \in ofMeasure : df_hcahps[k].state = hospital_state})
            /\ IsMeanOver(row.National_Avg, df_hcahps, ofMeasure)

\* the hospital has a null record and a scored record of one measure, and
\* another selected measure has no record at all
C3_Witness ==
    /\ pc = "idle"
    /\ \E a, b \in DOMAIN df_hcahps :
          /\ df_hcahps[a].facility = hospital_id
          /\ df_hcahps[b].facility = hospital_id
          /\ df_hcahps[a].measure_id = "H_COMP_1_A_P"
          /\ df_hcahps[b].measure_id = "H_COMP_1_A_P"
          /\ df_hcahps[a].answer_percent = NaN
          /\ df_hcahps[b].answer_percent # NaN
    /\ Len(comparison) >= 2
    /\ comparison[1].Hospital # NaN
    /\ comparison[2].National_Avg = NaN

\* C4 as claimed: with an empty selection the run does not fail; the table
\* has no rows and the display completes.
C4_EmptySelectionCompletes ==
    selected_metrics = <<>> => (comparison = <<>> /\ pc # "script_error")

\* C5 as claimed: title, date, table and chart are stacked top to bottom,
\* each region starting at or below the end of the one before, and the table
\* starts above the chart.
C5_RegionsStacked ==
    report.built =>
        /\ report.date.top >= report.title.top + report.title.height
        /\ report.table.top >= report.date.top + report.date.height
        /\ report.chart.top >= report.table.top + report.table.height
        /\ report.table.top < report.chart.top

\* C6: for every row count and canvas height the chart starts 0.2 in below
\* the table and its height is the larger of (H - chart.top - 0.3 in) and
\* 2 in, hence never below 2 in.
C6_ChartHeightClamped ==
    report.built =>
        LET room == slide_height - report.chart.top - InchEmu(300)
        IN  /\ report.chart.top = report.table.top + report.table.height + InchEmu(200)
            /\ report.chart.height >= InchEmu(2000)
            /\ report.chart.height >= room
            /\ report.chart.height \in {room, InchEmu(2000)}

\* a canvas too short for the table alone: the room left is negative
C6_Witness ==
    /\ report.built
    /\ report.rows = 3
    /\ slide_height - report.chart.top - InchEmu(300) < 0
    /\ report.chart.height = InchEmu(2000)

\* C7 as claimed: one width per column, the width of column j being
\* clamp(0.12 in * len_j, 1.0 in, 2.2 in) with len_j the longest of the
\* header and the texts written into the cells of the column.
C7_WidthsFitRenderedText ==
    report.built =>
        /\ Len(report.column_widths) = Len(columns)
        /\ \A j \in 1..Len(columns) :
              \E len \in 0..40 :
                  /\ len >= Len(columns[j])
                  /\ \A i \in 1..report.rows : len >= report.cell_text_len[i][j]
                  /\ \/ len = Len(columns[j])
                     \/ \E i \in 1..report.rows : len = report.cell_text_len[i][j]
                  /\ report.column_widths[j] =
                        InchEmu(Min(Max(120 * len, 1000), 2200))
                            - (IF len \in {11, 15} THEN 1 ELSE 0)

Classify(v) ==
    IF v # NaN /\ v[1] > 0 THEN "POSITIVE"
    ELSE IF v # NaN /\ v[1] < 0 THEN "NEGATIVE"
    ELSE "NEUTRAL"

ClassShown(style) ==
    CASE style = "background-color: #d4edda" -> "POSITIVE"
      [] style = "background-color: #f8d7da" -> "NEGATIVE"
      [] OTHER -> "NEUTRAL"

\* C8 as claimed: a 'vs State' / 'vs National' cell is POSITIVE iff its
\* value is above 0, NEGATIVE iff below 0, NEUTRAL if 0 or null, and the
\* table on the page and the table of the report show the same class.
C8_SameClassOnBothSurfaces ==
    report.built =>
        \A i \in 1..Len(comparison) :
            /\ ClassShown(display_style[i].vs_State) = Classify(comparison[i].vs_State)
            /\ ClassShown(display_style[i].vs_National) = Classify(comparison[i].vs_National)
            /\ ClassShown(report.cell_fill[i][5]) = Classify(comparison[i].vs_State)
            /\ ClassShown(report.cell_fill[i][6]) = Classify(comparison[i].vs_National)

\* C9 as claimed: when the export handler has ended, by return or by an
\* exception, no temporary file it created is left on disk.
C9_TempFilesRemoved ==
    pc \in {"exported", "export_failed"} => tmp_files = {}

\* C10: on the default 10 in x 7.5 in canvas, for 0 <= R <= 8 the clamp does
\* not trigger and the chart lies inside the canvas, ending 0.3 in above its
\* bottom; the room for the chart is below 2 in, and the chart runs into the
\* bottom margin, exactly from R = 17 on, and the chart does not pass the
\* canvas bottom for any R below 17.
C10_DefaultCanvas ==
    (report.built /\ slide_height = DefaultSlideHeight) =>
        LET R      == report.rows
            chart  == report.chart
            room   == DefaultSlideHeight - chart.top - InchEmu(300)
            bottom == chart.top + chart.height
        IN  /\ R <= 8 =>
                  /\ room >= InchEmu(2000)
                  /\ chart.height = room
                  /\ bottom = DefaultSlideHeight - InchEmu(300)
                  /\ chart.top >= 0
                  /\ chart.left >= 0
                  /\ chart.left + chart.width <= DefaultSlideWidth
            /\ (room < InchEmu(2000)) <=> (R >= 17)
            /\ (bottom > DefaultSlideHeight - InchEmu(300)) <=> (R >= 17)
            /\ bottom > DefaultSlideHeight => R >= 17

\* seventeen rows on the default canvas: the first clamped layout
C10_Witness ==
    /\ report.built
    /\ slide_height = DefaultSlideHeight
    /\ report.rows = 17
    /\ report.chart.height = InchEmu(2000)
    /\ report.chart.top + report.chart.height <= DefaultSlideHeight

====
